---- MODULE Spec2Model ----
(***************************************************************************)
(* A model of acr_image_cleanup.py: one run of the cleanup script against  *)
(* an Azure Container Registry and the App Services of a subscription.     *)
(* Text the code inspects (image references, digests, prompt answers) is   *)
(* kept as sequences of one-character strings so that lower(), strip(),    *)
(* startswith(), 'in', split() and rsplit() are computed as the code does. *)
(***************************************************************************)
EXTENDS Integers, Sequences, FiniteSets, TLC

(***************************************************************************)
(* Text primitives (Python str methods used by the script)                 *)
(***************************************************************************)
UpperAlphabet == <<"A","B","C","D","E","F","G","H","I","J","K","L","M",
                   "N","O","P","Q","R","S","T","U","V","W","X","Y","Z">>

LowerAlphabet == <<"a","b","c","d","e","f","g","h","i","j","k","l","m",
                   "n","o","p","q","r","s","t","u","v","w","x","y","z">>

\* the lower-case letter of each upper-case letter
LowerMap ==
    [c \in {UpperAlphabet[i] : i \in 1..26} |->
        LowerAlphabet[CHOOSE i \in 1..26 : UpperAlphabet[i] = c]]

LowerChar(c) == IF c \in DOMAIN LowerMap THEN LowerMap[c] ELSE c

\* str.lower()
Lower(s) == [i \in 1..Len(s) |-> LowerChar(s[i])]

\* str.startswith(p)
StartsWith(s, p) == Len(p) <= Len(s) /\ SubSeq(s, 1, Len(p)) = p

\* p in s
Contains(s, p) ==
    \E i \in 1..(Len(s) - Len(p) + 1) : SubSeq(s, i, i + Len(p) - 1) = p

\* positions of the character c in s
Positions(s, c) == {i \in 1..Len(s) : s[i] = c}

MinOf(S) == CHOOSE x \in S : \A y \in S : x <= y

MaxOf(S) == CHOOSE x \in S : \A y \in S : x >= y

\* s.split(c)[1] for a one-character separator that occurs in s
SplitSecond(s, c) ==
    LET first == MinOf(Positions(s, c))
        later == {i \in Positions(s, c) : i > first}
        stop  == IF later = {} THEN Len(s) + 1 ELSE MinOf(later)
    IN  SubSeq(s, first + 1, stop - 1)

\* s.rsplit(c, 1) for a one-character separator that occurs in s
RSplit(s, c) ==
    LET last == MaxOf(Positions(s, c))
    IN  <<SubSeq(s, 1, last - 1), SubSeq(s, last + 1, Len(s))>>

LeadingSpaces(s) ==
    IF \E i \in 1..Len(s) : s[i] # " "
    THEN MinOf({i \in 1..Len(s) : s[i] # " "}) - 1
    ELSE Len(s)

TrailingSpaces(s) ==
    IF \E i \in 1..Len(s) : s[i] # " "
    THEN Len(s) - MaxOf({i \in 1..Len(s) : s[i] # " "})
    ELSE 0

\* str.strip() (the answers typed at the prompts carry only blanks)
Strip(s) == SubSeq(s, LeadingSpaces(s) + 1, Len(s) - TrailingSpaces(s))

(***************************************************************************)
(* Configuration                                                           *)
(***************************************************************************)
IMAGE_AGE_THRESHOLD_DAYS == 30

\* the instant datetime.now(timezone.utc) returns, in days
Now == 40

\* AZURE_ACR_NAME
acr_name == <<"m">>

\* f"{acr_name}.azurecr.io"
acr_login_server == acr_name \o <<".","a","z","u","r","e","c","r",".","i","o">>

\* datetime.now(timezone.utc) - timedelta(days=threshold_days)
cutoff_date(threshold_days) == Now - threshold_days

(***************************************************************************)
(* Bounds of the explored inputs                                           *)
(***************************************************************************)
MaxManifests == 2

MaxApps == 2

MaxSlots == 1

MaxInstances == 2

MaxPrompts == 2

(***************************************************************************)
(* The registry as the az CLI reports it                                   *)
(***************************************************************************)
Sha256 == <<"s","h","a","2","5","6",":">>

DigestAB == Sha256 \o <<"A","B">>

DigestAb == Sha256 \o <<"a","b">>

DigestCd == Sha256 \o <<"c","d">>

RepoNames == <<"svc", "web">>

RawDigests == {DigestAB, DigestCd}

\* the tags and size the registry reports for a digest
RawTags(d) == IF d = DigestAB THEN <<"v1">> ELSE <<>>

RawSize(d) == IF d = DigestAB THEN 3 ELSE 5

\* createdTime strings: absent, not ISO-8601, "...Z" (UTC) and without offset
RawCreatedTimes ==
    {[form |-> "invalid", t |-> 0]}
    \cup {[form |-> "utc", t |-> cutoff_date(IMAGE_AGE_THRESHOLD_DAYS) + d] : d \in {-1, 0, 1}}
    \cup {[form |-> "naive", t |-> cutoff_date(IMAGE_AGE_THRESHOLD_DAYS) - 1]}

RawManifests ==
    {[digest |-> d, tags |-> RawTags(d), createdTime |-> c, imageSize |-> RawSize(d)] :
        d \in RawDigests, c \in RawCreatedTimes}

\* a repository holds a digest once
RawManifestLists ==
    UNION {{l \in [1..n -> RawManifests] :
               \A i, j \in 1..n : i # j => Lower(l[i].digest) # Lower(l[j].digest)} :
           n \in 0..MaxManifests}

RepoLists == {SubSeq(RepoNames, 1, n) : n \in 0..Len(RepoNames)}

Range(s) == {s[i] : i \in 1..Len(s)}

RegistrySnapshots ==
    {r \in [repo_list : RepoLists, manifests : [Range(RepoNames) -> RawManifestLists]] :
        /\ \A repo \in Range(RepoNames) \ Range(r.repo_list) : r.manifests[repo] = <<>>
        /\ Len(r.manifests["svc"]) + Len(r.manifests["web"]) <= MaxManifests}

(***************************************************************************)
(* get_all_acr_manifests and filter_manifests_by_age                       *)
(***************************************************************************)
None == [kind |-> "none"]

\* datetime.fromisoformat(created_time_str.replace('Z', '+00:00')), None on
\* an empty string or a ValueError
ParseCreatedTime(raw) ==
    CASE raw.form = "empty"   -> None
      [] raw.form = "invalid" -> None
      [] raw.form = "utc"     -> [kind |-> "datetime", t |-> raw.t, aware |-> TRUE]
      [] raw.form = "naive"   -> [kind |-> "datetime", t |-> raw.t, aware |-> FALSE]

NormalizeDigest_Raw(d) == d

\* manifest.get('digest', '').lower()
NormalizeDigest(d) == Lower(d)

TagsOrUntagged_AsListed(tags) == tags

\* tags if tags else ['<untagged>']
TagsOrUntagged(tags) == IF tags # <<>> THEN tags ELSE <<"<untagged>">>

\* the manifest_info dict built for one manifest of repo
ManifestInfo(raw, repo) ==
    [digest       |-> NormalizeDigest(raw.digest),
     tags         |-> TagsOrUntagged(raw.tags),
     created_time |-> ParseCreatedTime(raw.createdTime),
     size_bytes   |-> raw.imageSize,
     repository   |-> repo]

ManifestList(raws, repo) == [i \in 1..Len(raws) |-> ManifestInfo(raws[i], repo)]

IsOld_Inclusive(manifest, cutoff) ==
    /\ manifest.created_time.kind = "datetime"
    /\ manifest.created_time.t <= cutoff

\* created_time < cutoff_date
IsOld(manifest, cutoff) ==
    /\ manifest.created_time.kind = "datetime"
    /\ manifest.created_time.t < cutoff

OldManifests(manifests, cutoff) ==
    SelectSeq(manifests, LAMBDA m : IsOld(m, cutoff))

RECURSIVE FilterRepos_KeepEmpty(_, _)
FilterRepos_KeepEmpty(repos, cutoff) ==
    IF repos = <<>> THEN <<>>
    ELSE <<[repo |-> Head(repos).repo,
            manifests |-> OldManifests(Head(repos).manifests, cutoff)]>>
         \o FilterRepos_KeepEmpty(Tail(repos), cutoff)

\* the loop over repositories.items(): a repository is kept when it has an
\* old manifest
RECURSIVE FilterRepos(_, _)
FilterRepos(repos, cutoff) ==
    IF repos = <<>> THEN <<>>
    ELSE LET old == OldManifests(Head(repos).manifests, cutoff)
             rest == FilterRepos(Tail(repos), cutoff)
         IN  IF old # <<>>
             THEN <<[repo |-> Head(repos).repo, manifests |-> old]>> \o rest
             ELSE rest

\* comparing an offset-naive created_time with the aware cutoff raises TypeError
ComparisonRaises(repos) ==
    \E i \in 1..Len(repos) : \E j \in 1..Len(repos[i].manifests) :
        /\ repos[i].manifests[j].created_time.kind = "datetime"
        /\ ~repos[i].manifests[j].created_time.aware

filter_manifests_by_age(repos, threshold_days) ==
    FilterRepos(repos, cutoff_date(threshold_days))

RECURSIVE Flatten(_)
Flatten(repos) ==
    IF repos = <<>> THEN <<>>
    ELSE Head(repos).manifests \o Flatten(Tail(repos))

(***************************************************************************)
(* The App Services as the web client reports them                         *)
(***************************************************************************)
Slash == <<"/">>

DockerPrefix == <<"D","O","C","K","E","R","|">>

\* m.azurecr.io/svc:v1
ImgTag == acr_login_server \o Slash \o <<"s","v","c",":","v","1">>

\* M.azurecr.io/svc@sha256:AB  (host and digest typed in another letter case)
ImgDigest ==
    <<"M">> \o SubSeq(acr_login_server, 2, Len(acr_login_server)) \o Slash
    \o <<"s","v","c","@">> \o DigestAB

\* xm.azurecr.io/svc@sha256:cd  (another registry, whose name ends in ours)
ImgForeignDigest ==
    <<"x">> \o acr_login_server \o Slash \o <<"s","v","c","@">> \o DigestCd

\* m.azurecr.io/svc  (neither tag nor digest)
ImgBare == acr_login_server \o Slash \o <<"s","v","c">>

\* d.io/svc:v1  (another registry)
ImgOther == <<"d",".","i","o">> \o Slash \o <<"s","v","c",":","v","1">>

\* a site configuration with its application settings; an empty text stands
\* for an attribute that is absent, None or ''
SiteConfig(linux, windows, custom) ==
    [readable |-> TRUE, linux_fx_version |-> linux,
     windows_fx_version |-> windows, DOCKER_CUSTOM_IMAGE_NAME |-> custom]

\* get_configuration or list_application_settings raises
Unreadable ==
    [readable |-> FALSE, linux_fx_version |-> <<>>,
     windows_fx_version |-> <<>>, DOCKER_CUSTOM_IMAGE_NAME |-> <<>>]

ConfigPool ==
    {SiteConfig(DockerPrefix \o ImgTag, <<>>, <<>>),
     SiteConfig(<<>>, DockerPrefix \o ImgDigest, <<>>),
     SiteConfig(<<>>, <<>>, ImgForeignDigest),
     SiteConfig(DockerPrefix \o ImgOther, <<>>, <<>>),
     SiteConfig(DockerPrefix \o ImgBare, <<>>, <<>>),
     Unreadable}

AppNames == <<"appA", "appB", "appC">>

SlotNames == <<"stg", "dev">>

RECURSIVE SlotLists(_)
SlotLists(n) ==
    IF n = 0 THEN {<<>>}
    ELSE SlotLists(n - 1)
         \cup {Append(l, [name |-> SlotNames[n], config |-> c]) :
                 l \in {x \in SlotLists(n - 1) : Len(x) = n - 1}, c \in ConfigPool}

\* the lists of App Services whose apps are named from position i on and that
\* hold at most budget configurations (production slots and deployment slots)
RECURSIVE AppLists(_, _)
AppLists(i, budget) ==
    IF i > MaxApps \/ i > Len(AppNames) \/ budget = 0 THEN {<<>>}
    ELSE {<<>>} \cup UNION
         {{<<[name |-> AppNames[i], config |-> c, slots |-> sl]>> \o rest :
              rest \in AppLists(i + 1, budget - 1 - Len(sl))} :
          c \in ConfigPool,
          sl \in {x \in SlotLists(IF MaxSlots < Len(SlotNames) THEN MaxSlots ELSE Len(SlotNames)) :
                    Len(x) < budget}}

WebAppLists == AppLists(1, MaxInstances)

(***************************************************************************)
(* get_images_in_use_by_app_services                                       *)
(***************************************************************************)
\* fx_version.split('|', 1)[1] when it starts with DOCKER|, else no image
DockerImage(fx_version) ==
    IF StartsWith(fx_version, DockerPrefix)
    THEN SubSeq(fx_version, Len(DockerPrefix) + 1, Len(fx_version))
    ELSE <<>>

\* the tenancy filter: acr_login_server.lower() in image.lower()
MatchesRegistry(image, server) == Contains(Lower(image), Lower(server))

extract_acr_image_from_config(config, server) ==
    LET fx == IF config.linux_fx_version # <<>>
              THEN DockerImage(config.linux_fx_version)
              ELSE IF config.windows_fx_version # <<>>
                   THEN DockerImage(config.windows_fx_version)
                   ELSE <<>>
        image == IF fx = <<>> THEN config.DOCKER_CUSTOM_IMAGE_NAME ELSE fx
    IN  IF image # <<>> /\ MatchesRegistry(image, server) THEN image ELSE <<>>

\* defaultdict(list): d[key].extend(values)
Extend(d, key, values) ==
    IF key \in DOMAIN d
    THEN [d EXCEPT ![key] = @ \o values]
    ELSE d @@ (key :> values)

Record_ImageOnly(usage, image, name) ==
    IF image = <<>> THEN usage
    ELSE [images |-> usage.images \cup {image}, apps |-> usage.apps]

\* images_in_use.add(image); image_to_apps[image].append(name), when image
Record(usage, image, name) ==
    IF image = <<>> THEN usage
    ELSE [images |-> usage.images \cup {image},
          apps   |-> Extend(usage.apps, image, <<name>>)]

\* the deployment slots of one app, in order; an unreadable slot is skipped
RECURSIVE ScanSlots(_, _, _, _)
ScanSlots(usage, app_name, slots, server) ==
    IF slots = <<>> THEN usage
    ELSE LET slot == Head(slots)
             next == IF slot.config.readable
                     THEN Record(usage,
                                 extract_acr_image_from_config(slot.config, server),
                                 <<app_name, slot.name>>)
                     ELSE usage
         IN  ScanSlots(next, app_name, Tail(slots), server)

\* one iteration of the loop over app_services: the production slot, then the
\* deployment slots; an exception reading the production configuration ends
\* the iteration
ScanApp(usage, app, server) ==
    IF ~app.config.readable THEN usage
    ELSE ScanSlots(Record(usage,
                          extract_acr_image_from_config(app.config, server),
                          <<app.name>>),
                   app.name, app.slots, server)

(***************************************************************************)
(* resolve_images_to_manifests                                             *)
(***************************************************************************)
\* the reference without the "<server>/" prefix, matched in lower case
ImagePart(image_ref, server) ==
    IF StartsWith(Lower(image_ref), Lower(server) \o Slash)
    THEN SubSeq(image_ref, Len(server) + 2, Len(image_ref))
    ELSE image_ref

\* '@sha256:' in image_part
IsDigestRef(image_part) == Contains(image_part, <<"@">> \o Sha256)

\* image_part.split('@')[1].lower()
DigestOfRef(image_part) == Lower(SplitSecond(image_part, "@"))

TagQuery_NoDefault(image_part) ==
    IF Positions(image_part, ":") # {}
    THEN RSplit(image_part, ":")[1] \o <<":">> \o RSplit(image_part, ":")[2]
    ELSE image_part \o <<":">>

\* f"{repository}:{tag}" after rsplit(':', 1), the tag defaulting to latest
TagQuery(image_part) ==
    IF Positions(image_part, ":") # {}
    THEN RSplit(image_part, ":")[1] \o <<":">> \o RSplit(image_part, ":")[2]
    ELSE image_part \o <<":">> \o <<"l","a","t","e","s","t">>

\* what 'az acr repository show' can answer: a failing command, output that
\* is not JSON, JSON without a digest, JSON with a digest
TagAnswers ==
    {[kind |-> "error", digest |-> <<>>], [kind |-> "badjson", digest |-> <<>>]}
    \cup {[kind |-> "json", digest |-> d] : d \in {<<>>, DigestAB, DigestAb, DigestCd}}

\* the digest a tag query contributes, empty when the reference is dropped
ResolvedDigest(answer) ==
    IF answer.kind = "json" /\ answer.digest # <<>> THEN Lower(answer.digest) ELSE <<>>

ResolveOne_NoCheck(resolved, image_ref, image_to_apps, digest) ==
    [digests |-> resolved.digests \cup {digest},
     apps    |-> IF image_ref \in DOMAIN image_to_apps
                 THEN Extend(resolved.apps, digest, image_to_apps[image_ref])
                 ELSE resolved.apps]

\* one iteration of the loop over images_in_use: nothing is added without a
\* digest
ResolveOne(resolved, image_ref, image_to_apps, digest) ==
    IF digest = <<>> THEN resolved
    ELSE [digests |-> resolved.digests \cup {digest},
          apps    |-> IF image_ref \in DOMAIN image_to_apps
                      THEN Extend(resolved.apps, digest, image_to_apps[image_ref])
                      ELSE resolved.apps]

(***************************************************************************)
(* identify_unused_manifests                                               *)
(***************************************************************************)
\* digest not in manifests_in_use
NotInUse(manifest, manifests_in_use) == manifest.digest \notin manifests_in_use

WithApps_Empty(manifest, digest_to_apps) ==
    [digest       |-> manifest.digest,
     tags         |-> manifest.tags,
     created_time |-> manifest.created_time,
     size_bytes   |-> manifest.size_bytes,
     repository   |-> manifest.repository,
     used_by_apps |-> <<>>]

\* manifest.copy() with used_by_apps = digest_to_apps.get(digest, [])
WithApps(manifest, digest_to_apps) ==
    [digest       |-> manifest.digest,
     tags         |-> manifest.tags,
     created_time |-> manifest.created_time,
     size_bytes   |-> manifest.size_bytes,
     repository   |-> manifest.repository,
     used_by_apps |-> IF manifest.digest \in DOMAIN digest_to_apps
                      THEN digest_to_apps[manifest.digest] ELSE <<>>]

UnusedOf_All(old_repos, manifests_in_use) == Flatten(old_repos)

\* the manifests appended to unused_manifests, in iteration order
UnusedOf(old_repos, manifests_in_use) ==
    SelectSeq(Flatten(old_repos), LAMBDA m : NotInUse(m, manifests_in_use))

\* the copies appended to old_manifests_in_use, in iteration order
InUseOf(old_repos, manifests_in_use, digest_to_apps) ==
    LET kept == SelectSeq(Flatten(old_repos), LAMBDA m : ~NotInUse(m, manifests_in_use))
    IN  [i \in 1..Len(kept) |-> WithApps(kept[i], digest_to_apps)]

\* set(app for m in old_manifests_in_use for app in m.get('used_by_apps', []))
RECURSIVE AppsUsing(_)
AppsUsing(in_use) ==
    IF in_use = <<>> THEN {}
    ELSE Range(Head(in_use).used_by_apps) \cup AppsUsing(Tail(in_use))

RECURSIVE display_old_manifests_warning_Sum(_)
display_old_manifests_warning_Sum(in_use) ==
    IF in_use = <<>> THEN 0
    ELSE Len(Head(in_use).used_by_apps)
         + display_old_manifests_warning_Sum(Tail(in_use))

\* the number printed as "Total App Services affected"; nothing is printed
\* for an empty list
display_old_manifests_warning(in_use) ==
    IF in_use = <<>> THEN 0 ELSE Cardinality(AppsUsing(in_use))

(***************************************************************************)
(* Prompts, deletion and the audit log                                     *)
(***************************************************************************)
\* answers typed at "Enter your choice (1 or 2): "
ChoiceAnswers == {<<"1">>, <<"2">>, <<" ","2">>, <<"3">>}

\* answers typed at "Are you absolutely sure? Type 'yes' to confirm: "
ConfirmAnswers == {<<"y","e","s">>, <<"Y","E","S"," ">>, <<"n","o">>}

\* answers typed at "Type 'DELETE' (in all caps) to confirm deletion: "
FinalAnswers ==
    {<<"D","E","L","E","T","E">>, <<"D","E","L","E","T","E"," ">>,
     <<"d","e","l","e","t","e">>}

Yes == <<"y","e","s">>

DELETE == <<"D","E","L","E","T","E">>

\* input(...).strip().lower() == 'yes'
ConfirmsHard(typed) == Lower(Strip(typed)) = Yes

ConfirmsDeletion_AnyCase(typed) == Lower(Strip(typed)) = Lower(DELETE)

\* input(...).strip() == 'DELETE'
ConfirmsDeletion(typed) == Strip(typed) = DELETE

\* the repo@digest of the commands mock_delete_manifests prints, in order
mock_delete_manifests(unused) ==
    [i \in 1..Len(unused) |->
        [repository |-> unused[i].repository, digest |-> unused[i].digest]]

\* how subprocess.run of 'az acr repository delete' can end, and whether the
\* registry removed the manifest: exit status 0, CalledProcessError,
\* TimeoutExpired (the child is killed; the registry may have acted already)
DeleteOutcomes ==
    {[result |-> "success", applied |-> TRUE],
     [result |-> "error",   applied |-> FALSE],
     [result |-> "timeout", applied |-> FALSE],
     [result |-> "timeout", applied |-> TRUE]}

\* the status written to deletion_results[digest]
LedgerStatus(result) == IF result = "success" THEN "success" ELSE "failed"

\* deletion_results[digest] = {...}: the ledger is keyed by the digest alone
LedgerPut(results, manifest, result) ==
    LET entry == [status |-> LedgerStatus(result), repository |-> manifest.repository]
    IN  IF manifest.digest \in DOMAIN results
        THEN [results EXCEPT ![manifest.digest] = entry]
        ELSE results @@ (manifest.digest :> entry)

\* sorted(list, key=created_time): stable insertion by creation time
RECURSIVE SortedByTime(_)
SortedByTime(ms) ==
    IF ms = <<>> THEN <<>>
    ELSE LET rest == SortedByTime(SubSeq(ms, 1, Len(ms) - 1))
             m    == ms[Len(ms)]
             keep == SelectSeq(rest, LAMBDA x : x.created_time.t <= m.created_time.t)
             move == SelectSeq(rest, LAMBDA x : x.created_time.t > m.created_time.t)
         IN  keep \o <<m>> \o move

NoResult == [status |-> "none", repository |-> "none"]

\* the 'manifests' entries of the audit file
AuditManifests(unused, results) ==
    LET sorted == SortedByTime(unused)
    IN  [i \in 1..Len(sorted) |->
            [repository |-> sorted[i].repository,
             digest     |-> sorted[i].digest,
             tags       |-> sorted[i].tags,
             deletion_result |->
                 IF results.kind = "dict" /\ sorted[i].digest \in DOMAIN results.entries
                 THEN results.entries[sorted[i].digest] ELSE NoResult]]

\* the 'old_manifests_in_use' entries of the audit file
AuditProtected(in_use) ==
    LET sorted == SortedByTime(in_use)
    IN  [i \in 1..Len(sorted) |->
            [repository |-> sorted[i].repository,
             digest     |-> sorted[i].digest,
             tags       |-> sorted[i].tags,
             used_by_app_services |-> sorted[i].used_by_apps,
             app_service_count    |-> Len(sorted[i].used_by_apps)]]

\* the 'deletion_summary' of the audit file, present for a hard delete with a
\* non-empty ledger
AuditSummary(mode, results) ==
    IF mode = "hard" /\ results.kind = "dict" /\ DOMAIN results.entries # {}
    THEN [present |-> TRUE,
          total_attempted |-> Cardinality(DOMAIN results.entries),
          successful |-> Cardinality({d \in DOMAIN results.entries :
                                         results.entries[d].status = "success"}),
          failed     |-> Cardinality({d \in DOMAIN results.entries :
                                         results.entries[d].status = "failed"})]
    ELSE [present |-> FALSE, total_attempted |-> 0, successful |-> 0, failed |-> 0]

write_audit_log(mode, unused, in_use, results) ==
    [written |-> TRUE,
     deletion_mode |-> mode,
     manifests |-> AuditManifests(unused, results),
     old_manifests_in_use |-> AuditProtected(in_use),
     deletion_summary |-> AuditSummary(mode, results)]

NoAudit ==
    [written |-> FALSE, deletion_mode |-> "none", manifests |-> <<>>,
     old_manifests_in_use |-> <<>>,
     deletion_summary |-> [present |-> FALSE, total_attempted |-> 0,
                           successful |-> 0, failed |-> 0]]

(***************************************************************************)
(* State                                                                   *)
(***************************************************************************)
VARIABLES
    pc,                    \* where main() stands, or how the process ended
    acr,                   \* the registry: repositories and their manifests
    acr_tags,              \* the answers 'az acr repository show' has given
    acr_deleted,           \* the <<repository, digest>> the registry removed
    webapps,               \* the App Services and their configurations
    repositories,          \* get_all_acr_manifests: repo -> manifest list
    repo_idx,              \* position in repo_list
    old_repositories,      \* filter_manifests_by_age
    app_idx,               \* position in app_services
    images_in_use,         \* get_images_in_use_by_app_services
    image_to_apps,
    pending,               \* image references still to resolve
    manifests_in_use,      \* resolve_images_to_manifests
    digest_to_apps,
    unused_manifests,      \* identify_unused_manifests
    old_manifests_in_use,
    choice,                \* the answers read by input()
    confirm,
    response,
    prompts,               \* how often the running select_deletion_mode has asked
    deletion_mode,
    deletion_results,
    deleted_count,
    failed_count,
    del_idx,               \* position in unused_manifests
    commands,              \* the delete commands issued, in order
    outcomes,              \* how the delete commands that returned ended
    interrupted_at,        \* where a KeyboardInterrupt was raised
    apps_affected,         \* "Total App Services affected" as printed
    mock_commands,         \* the commands mock_delete_manifests printed
    audit                  \* the audit file

vars ==
    <<pc, acr, acr_tags, acr_deleted, webapps, repositories, repo_idx,
      old_repositories, app_idx, images_in_use, image_to_apps, pending,
      manifests_in_use, digest_to_apps, unused_manifests, old_manifests_in_use,
      choice, confirm, response, prompts, deletion_mode, deletion_results,
      deleted_count, failed_count, del_idx, commands, outcomes, interrupted_at,
      apps_affected, mock_commands, audit>>

env == <<acr, webapps>>

catalog == <<repositories, repo_idx, old_repositories>>

usage == <<app_idx, images_in_use, image_to_apps>>

resolution == <<acr_tags, pending, manifests_in_use, digest_to_apps>>

classification == <<unused_manifests, old_manifests_in_use>>

answers == <<choice, confirm, response, prompts, deletion_mode>>

deletion ==
    <<acr_deleted, deletion_results, deleted_count, failed_count, del_idx,
      commands, outcomes>>

report == <<apps_affected, mock_commands>>

Init ==
    /\ pc = "list_repos"
    /\ acr \in RegistrySnapshots
    /\ webapps = <<>>
    /\ acr_tags = <<>>
    /\ acr_deleted = {}
    /\ repositories = <<>>
    /\ repo_idx = 1
    /\ old_repositories = <<>>
    /\ app_idx = 1
    /\ images_in_use = {}
    /\ image_to_apps = <<>>
    /\ pending = {}
    /\ manifests_in_use = {}
    /\ digest_to_apps = <<>>
    /\ unused_manifests = <<>>
    /\ old_manifests_in_use = <<>>
    /\ choice = <<>>
    /\ confirm = <<>>
    /\ response = <<>>
    /\ prompts = 0
    /\ deletion_mode = "none"
    /\ deletion_results = None
    /\ deleted_count = 0
    /\ failed_count = 0
    /\ del_idx = 1
    /\ commands = <<>>
    /\ outcomes = <<>>
    /\ interrupted_at = "none"
    /\ apps_affected = 0
    /\ mock_commands = <<>>
    /\ audit = NoAudit

(***************************************************************************)
(* get_all_acr_manifests                                                   *)
(***************************************************************************)
\* 'az acr repository list' succeeds
ListRepositories ==
    /\ pc = "list_repos"
    /\ pc' = IF acr.repo_list = <<>> THEN "filter" ELSE "show_manifests"
    /\ UNCHANGED <<env, catalog, usage, resolution, classification, answers,
                   deletion, interrupted_at, report, audit>>

\* CalledProcessError or JSONDecodeError: sys.exit(1)
ListRepositoriesFails ==
    /\ pc = "list_repos"
    /\ pc' = "exit1"
    /\ UNCHANGED <<env, catalog, usage, resolution, classification, answers,
                   deletion, interrupted_at, report, audit>>

\* 'az acr repository show-manifests' for the next repository succeeds
ShowManifests ==
    /\ pc = "show_manifests"
    /\ LET repo == acr.repo_list[repo_idx]
       IN  repositories' =
               Append(repositories,
                      [repo |-> repo,
                       manifests |-> ManifestList(acr.manifests[repo], repo)])
    /\ repo_idx' = repo_idx + 1
    /\ pc' = IF repo_idx = Len(acr.repo_list) THEN "filter" ELSE "show_manifests"
    /\ UNCHANGED <<env, old_repositories, usage, resolution, classification,
                   answers, deletion, interrupted_at, report, audit>>

ShowManifestsSkips ==
    /\ pc = "show_manifests"
    /\ repo_idx' = repo_idx + 1
    /\ pc' = IF repo_idx = Len(acr.repo_list) THEN "filter" ELSE "show_manifests"
    /\ UNCHANGED <<env, repositories, old_repositories, usage, resolution,
                   classification, answers, deletion, interrupted_at, report, audit>>

\* CalledProcessError or JSONDecodeError inside the loop: sys.exit(1)
ShowManifestsFails ==
    /\ pc = "show_manifests"
    /\ pc' = "exit1"
    /\ UNCHANGED <<env, catalog, usage, resolution, classification, answers,
                   deletion, interrupted_at, report, audit>>

(***************************************************************************)
(* filter_manifests_by_age and the early return of main()                  *)
(***************************************************************************)
FilterManifestsByAge ==
    /\ pc = "filter"
    /\ IF ComparisonRaises(repositories)
       THEN /\ pc' = "fatal"
            /\ UNCHANGED old_repositories
       ELSE /\ old_repositories' =
                   filter_manifests_by_age(repositories, IMAGE_AGE_THRESHOLD_DAYS)
            /\ pc' = IF old_repositories' = <<>> THEN "done" ELSE "list_apps"
    /\ UNCHANGED <<env, repositories, repo_idx, usage, resolution,
                   classification, answers, deletion, interrupted_at, report, audit>>

(***************************************************************************)
(* get_images_in_use_by_app_services                                       *)
(***************************************************************************)
\* list(web_client.web_apps.list()) succeeds
ListWebApps ==
    /\ pc = "list_apps"
    /\ webapps' \in WebAppLists
    /\ pc' = IF webapps' = <<>> THEN "resolve" ELSE "scan"
    /\ UNCHANGED <<acr, catalog, usage, resolution, classification, answers,
                   deletion, interrupted_at, report, audit>>

\* AzureError: sys.exit(1)
ListWebAppsFails ==
    /\ pc = "list_apps"
    /\ pc' = "exit1"
    /\ UNCHANGED <<env, catalog, usage, resolution, classification, answers,
                   deletion, interrupted_at, report, audit>>

ScanAppService ==
    /\ pc = "scan"
    /\ LET found == ScanApp([images |-> images_in_use, apps |-> image_to_apps],
                            webapps[app_idx], acr_login_server)
       IN  /\ images_in_use' = found.images
           /\ image_to_apps' = found.apps
           /\ pending' = IF app_idx = Len(webapps) THEN found.images ELSE pending
    /\ app_idx' = app_idx + 1
    /\ pc' = IF app_idx = Len(webapps) THEN "resolve" ELSE "scan"
    /\ UNCHANGED <<env, catalog, acr_tags, manifests_in_use, digest_to_apps,
                   classification, answers, deletion, interrupted_at, report, audit>>

(***************************************************************************)
(* resolve_images_to_manifests                                             *)
(***************************************************************************)
\* one image reference, in the arbitrary order a set is iterated in
ResolveImage ==
    /\ pc = "resolve"
    /\ \E image_ref \in pending :
          LET part == ImagePart(image_ref, acr_login_server)
              now  == [digests |-> manifests_in_use, apps |-> digest_to_apps]
          IN  /\ pending' = pending \ {image_ref}
              /\ IF IsDigestRef(part)
                 THEN /\ LET next == ResolveOne(now, image_ref, image_to_apps,
                                                DigestOfRef(part))
                         IN  /\ manifests_in_use' = next.digests
                             /\ digest_to_apps' = next.apps
                      /\ UNCHANGED acr_tags
                 ELSE \E answer \in TagAnswers :
                         /\ TagQuery(part) \in DOMAIN acr_tags
                               => answer = acr_tags[TagQuery(part)]
                         /\ acr_tags' = IF TagQuery(part) \in DOMAIN acr_tags
                                        THEN acr_tags
                                        ELSE acr_tags @@ (TagQuery(part) :> answer)
                         /\ LET next == ResolveOne(now, image_ref, image_to_apps,
                                                   ResolvedDigest(answer))
                            IN  /\ manifests_in_use' = next.digests
                                /\ digest_to_apps' = next.apps
    /\ UNCHANGED <<pc, env, catalog, usage, classification, answers, deletion,
                   interrupted_at, report, audit>>

ResolveReturnsEarly ==
    /\ pc = "resolve"
    /\ pc' = "identify"
    /\ UNCHANGED <<env, catalog, usage, resolution, classification, answers,
                   deletion, interrupted_at, report, audit>>

\* the loop is over: return manifest_digests, dict(digest_to_apps)
ResolveReturns ==
    /\ pc = "resolve"
    /\ pending = {}
    /\ pc' = "identify"
    /\ UNCHANGED <<env, catalog, usage, resolution, classification, answers,
                   deletion, interrupted_at, report, audit>>

(***************************************************************************)
(* identify_unused_manifests; main() asks for a mode only when something   *)
(* is unused                                                               *)
(***************************************************************************)
IdentifyUnusedManifests ==
    /\ pc = "identify"
    /\ unused_manifests' = UnusedOf(old_repositories, manifests_in_use)
    /\ old_manifests_in_use' =
           InUseOf(old_repositories, manifests_in_use, digest_to_apps)
    /\ apps_affected' = display_old_manifests_warning(old_manifests_in_use')
    /\ pc' = IF unused_manifests' # <<>> THEN "select_mode" ELSE "audit"
    /\ UNCHANGED <<env, catalog, usage, resolution, answers, deletion,
                   interrupted_at, mock_commands, audit>>

(***************************************************************************)
(* select_deletion_mode                                                    *)
(***************************************************************************)
SelectMode ==
    /\ pc = "select_mode"
    /\ \E typed \in ChoiceAnswers :
          /\ prompts < MaxPrompts \/ Strip(typed) \in {<<"1">>, <<"2">>}
          /\ choice' = Strip(typed)
          /\ deletion_mode' = IF choice' = <<"1">> THEN "mock" ELSE deletion_mode
          /\ pc' = IF choice' = <<"1">> THEN "mock_delete"
                   ELSE IF choice' = <<"2">> THEN "confirm_hard"
                   ELSE "select_mode"
          /\ prompts' = IF choice' = <<"1">> THEN 0 ELSE prompts + 1
    /\ UNCHANGED <<env, catalog, usage, resolution, classification, confirm,
                   response, deletion, interrupted_at, report, audit>>

ConfirmHard ==
    /\ pc = "confirm_hard"
    /\ \E typed \in ConfirmAnswers :
          /\ prompts < MaxPrompts \/ ConfirmsHard(typed)
          /\ confirm' = Lower(Strip(typed))
          /\ deletion_mode' = IF ConfirmsHard(typed) THEN "hard" ELSE deletion_mode
          /\ pc' = IF ConfirmsHard(typed) THEN "final_prompt" ELSE "select_mode"
          /\ prompts' = IF ConfirmsHard(typed) THEN 0 ELSE prompts
    /\ UNCHANGED <<env, catalog, usage, resolution, classification, choice,
                   response, deletion, interrupted_at, report, audit>>

(***************************************************************************)
(* mock_delete_manifests and hard_delete_manifests                         *)
(***************************************************************************)
MockDeleteRuns ==
    /\ pc = "mock_delete"
    /\ mock_commands' = mock_delete_manifests(unused_manifests)
    /\ commands' = commands \o mock_commands'
    /\ pc' = "audit"
    /\ UNCHANGED <<env, catalog, usage, resolution, classification, answers,
                   acr_deleted, deletion_results, deleted_count, failed_count,
                   del_idx, outcomes, interrupted_at, apps_affected, audit>>

\* mock_delete_manifests prints the commands and runs none
MockDelete ==
    /\ pc = "mock_delete"
    /\ mock_commands' = mock_delete_manifests(unused_manifests)
    /\ pc' = "audit"
    /\ UNCHANGED <<env, catalog, usage, resolution, classification, answers,
                   deletion, interrupted_at, apps_affected, audit>>

\* the final confirmation of hard_delete_manifests
FinalPrompt ==
    /\ pc = "final_prompt"
    /\ \E typed \in FinalAnswers :
          /\ response' = Strip(typed)
          /\ IF ConfirmsDeletion(typed)
             THEN /\ pc' = "delete"
                  /\ deletion_results' = [kind |-> "dict", entries |-> <<>>]
             ELSE /\ pc' = "audit"
                  /\ UNCHANGED deletion_results
    /\ UNCHANGED <<env, catalog, usage, resolution, classification, choice,
                   confirm, prompts, deletion_mode, acr_deleted, deleted_count,
                   failed_count, del_idx, commands, outcomes, interrupted_at,
                   report, audit>>

\* subprocess.run(['az.cmd', 'acr', 'repository', 'delete', ...]) is entered
IssueDelete ==
    /\ pc = "delete"
    /\ commands' = Append(commands,
                          [repository |-> unused_manifests[del_idx].repository,
                           digest     |-> unused_manifests[del_idx].digest])
    /\ pc' = "deleting"
    /\ UNCHANGED <<env, catalog, usage, resolution, classification, answers,
                   acr_deleted, deletion_results, deleted_count, failed_count,
                   del_idx, outcomes, interrupted_at, report, audit>>

\* subprocess.run returns or raises CalledProcessError / TimeoutExpired
DeleteReturns ==
    /\ pc = "deleting"
    /\ \E outcome \in DeleteOutcomes :
          LET manifest == unused_manifests[del_idx]
          IN  /\ acr_deleted' =
                     IF outcome.applied
                     THEN acr_deleted \cup {<<manifest.repository, manifest.digest>>}
                     ELSE acr_deleted
              /\ outcomes' = Append(outcomes, outcome.result)
              /\ deleted_count' =
                     IF outcome.result = "success" THEN deleted_count + 1
                     ELSE deleted_count
              /\ failed_count' =
                     IF outcome.result = "success" THEN failed_count
                     ELSE failed_count + 1
              /\ deletion_results' =
                     [deletion_results EXCEPT
                         !.entries = LedgerPut(@, manifest, outcome.result)]
    /\ del_idx' = del_idx + 1
    /\ pc' = IF del_idx = Len(unused_manifests) THEN "audit" ELSE "delete"
    /\ UNCHANGED <<env, catalog, usage, resolution, classification, answers,
                   commands, interrupted_at, report, audit>>

\* Ctrl-C inside the try block of main(): at a prompt, between two deletions,
\* or while subprocess.run waits for az (the child is killed and the
\* exception propagates); main() prints and calls sys.exit(0)
KeyboardInterrupt ==
    /\ pc \in {"select_mode", "confirm_hard", "final_prompt", "delete", "deleting"}
    /\ interrupted_at' = pc
    /\ pc' = "cancelled"
    /\ \E applied \in BOOLEAN :
          /\ applied => pc = "deleting"
          /\ acr_deleted' =
                 IF applied
                 THEN acr_deleted \cup {<<unused_manifests[del_idx].repository,
                                          unused_manifests[del_idx].digest>>}
                 ELSE acr_deleted
    /\ UNCHANGED <<env, catalog, usage, resolution, classification, answers,
                   deletion_results, deleted_count, failed_count, del_idx,
                   commands, outcomes, report, audit>>

(***************************************************************************)
(* the end of main(): the audit log                                        *)
(***************************************************************************)
\* written only when a deletion mode was selected; main() then returns
WriteAuditLog ==
    /\ pc = "audit"
    /\ audit' = IF deletion_mode # "none"
                   /\ (unused_manifests # <<>> \/ old_manifests_in_use # <<>>)
                THEN write_audit_log(deletion_mode, unused_manifests,
                                     old_manifests_in_use, deletion_results)
                ELSE audit
    /\ pc' = "done"
    /\ UNCHANGED <<env, catalog, usage, resolution, classification, answers,
                   deletion, interrupted_at, report>>

\* write_audit_log raises: main() prints a warning and returns
WriteAuditLogFails ==
    /\ pc = "audit"
    /\ deletion_mode # "none"
    /\ pc' = "done"
    /\ UNCHANGED <<env, catalog, usage, resolution, classification, answers,
                   deletion, interrupted_at, report, audit>>

Next ==
    \/ ListRepositories
    \/ ListRepositoriesFails
    \/ ShowManifests
    \/ ShowManifestsFails
    \/ FilterManifestsByAge
    \/ ListWebApps
    \/ ListWebAppsFails
    \/ ScanAppService
    \/ ResolveImage
    \/ ResolveReturns
    \/ IdentifyUnusedManifests
    \/ SelectMode
    \/ ConfirmHard
    \/ MockDelete
    \/ FinalPrompt
    \/ IssueDelete
    \/ DeleteReturns
    \/ KeyboardInterrupt
    \/ WriteAuditLog
    \/ WriteAuditLogFails

Spec == Init /\ [][Next]_vars

(***************************************************************************)
(* The usage scan, resolution and classification of one App Service whose  *)
(* configuration carries any mix of the three image sources, against a     *)
(* registry already catalogued                                             *)
(***************************************************************************)
\* m.azurecr.io/svc@SHA256:AB  (the algorithm prefix typed in upper case)
ImgDigestUpper ==
    acr_login_server \o Slash \o <<"s","v","c","@","S","H","A","2","5","6",":","A","B">>

\* a linux_fx_version that names a runtime stack, not a container
RuntimeFx == <<"P","Y","|","3">>

MixedConfigs ==
    {SiteConfig(linux, windows, custom) :
        linux   \in {<<>>, RuntimeFx, DockerPrefix \o ImgTag},
        windows \in {<<>>, DockerPrefix \o ImgDigest, DockerPrefix \o ImgOther},
        custom  \in {<<>>, ImgDigestUpper, ImgBare}}

\* repository svc holds two manifests older than the threshold
OldRegistry ==
    [repo_list |-> <<"svc">>,
     manifests |->
         [repo \in Range(RepoNames) |->
             IF repo = "svc"
             THEN <<[digest |-> DigestAB, tags |-> RawTags(DigestAB),
                     createdTime |-> [form |-> "utc",
                                      t |-> cutoff_date(IMAGE_AGE_THRESHOLD_DAYS) - 1],
                     imageSize |-> RawSize(DigestAB)],
                    [digest |-> DigestCd, tags |-> RawTags(DigestCd),
                     createdTime |-> [form |-> "utc",
                                      t |-> cutoff_date(IMAGE_AGE_THRESHOLD_DAYS) - 1],
                     imageSize |-> RawSize(DigestCd)]>>
             ELSE <<>>]]

\* main() after web_apps.list() returned one App Service
InitUsage ==
    /\ pc = "scan"
    /\ acr = OldRegistry
    /\ webapps \in {<<[name |-> AppNames[1], config |-> c, slots |-> <<>>]>> :
                       c \in MixedConfigs}
    /\ acr_tags = <<>>
    /\ acr_deleted = {}
    /\ repositories =
           <<[repo |-> "svc", manifests |-> ManifestList(acr.manifests["svc"], "svc")]>>
    /\ repo_idx = 2
    /\ old_repositories = filter_manifests_by_age(repositories, IMAGE_AGE_THRESHOLD_DAYS)
    /\ app_idx = 1
    /\ images_in_use = {}
    /\ image_to_apps = <<>>
    /\ pending = {}
    /\ manifests_in_use = {}
    /\ digest_to_apps = <<>>
    /\ unused_manifests = <<>>
    /\ old_manifests_in_use = <<>>
    /\ choice = <<>>
    /\ confirm = <<>>
    /\ response = <<>>
    /\ prompts = 0
    /\ deletion_mode = "none"
    /\ deletion_results = None
    /\ deleted_count = 0
    /\ failed_count = 0
    /\ del_idx = 1
    /\ commands = <<>>
    /\ outcomes = <<>>
    /\ interrupted_at = "none"
    /\ apps_affected = 0
    /\ mock_commands = <<>>
    /\ audit = NoAudit

NextUsage ==
    \/ ScanAppService
    \/ ResolveImage
    \/ ResolveReturns
    \/ IdentifyUnusedManifests

SpecUsage == InitUsage /\ [][NextUsage]_vars

(***************************************************************************)
(* Properties                                                              *)
(***************************************************************************)
\* identify_unused_manifests has returned in this run
Classified ==
    \/ pc \in {"select_mode", "confirm_hard", "mock_delete", "final_prompt",
               "delete", "deleting", "audit", "cancelled"}
    \/ pc = "done" /\ old_repositories # <<>>

\* resolve_images_to_manifests has returned in this run
Resolved == pc = "identify" \/ Classified

OldList == Flatten(old_repositories)

\* a manifest record without the provenance added by classification
Plain(m) ==
    [digest |-> m.digest, tags |-> m.tags, created_time |-> m.created_time,
     size_bytes |-> m.size_bytes, repository |-> m.repository]

Occurrences(list, m) == Cardinality({i \in 1..Len(list) : Plain(list[i]) = m})

Digests(list) == {list[i].digest : i \in 1..Len(list)}

\* C1: after identify_unused_manifests every manifest of the old-manifest
\* mapping occurs exactly once in unused_manifests and old_manifests_in_use
\* taken together, the two lists hold nothing else, the old mapping holds
\* no manifest with a null creation time, and no digest is in both lists.
PartitionComplete ==
    Classified =>
        /\ \A i \in 1..Len(OldList) :
              /\ OldList[i].created_time # None
              /\ Occurrences(unused_manifests, OldList[i])
                    + Occurrences(old_manifests_in_use, OldList[i]) = 1
        /\ Len(unused_manifests) + Len(old_manifests_in_use) = Len(OldList)
        /\ Digests(unused_manifests) \cap Digests(old_manifests_in_use) = {}

PartitionWitness ==
    /\ Classified
    /\ unused_manifests # <<>>
    /\ old_manifests_in_use # <<>>

\* the catalog records of the manifest a delete command names
CatalogRecords(repository, digest) ==
    {m \in Range(Flatten(repositories)) :
        m.repository = repository /\ m.digest = digest}

\* C2: every manifest a delete command is issued for is a member of
\* unused_manifests, has a parsed creation time strictly before now minus
\* the threshold, has a digest outside the in-use digest set and is not in
\* old_manifests_in_use.
DeletesOnlyUnused ==
    \A i \in 1..Len(commands) :
        LET c == commands[i]
        IN  /\ \E j \in 1..Len(unused_manifests) :
                  /\ unused_manifests[j].repository = c.repository
                  /\ unused_manifests[j].digest = c.digest
            /\ CatalogRecords(c.repository, c.digest) # {}
            /\ \A m \in CatalogRecords(c.repository, c.digest) :
                  /\ m.created_time # None
                  /\ m.created_time.t < Now - IMAGE_AGE_THRESHOLD_DAYS
            /\ c.digest \notin manifests_in_use
            /\ \A j \in 1..Len(old_manifests_in_use) :
                  old_manifests_in_use[j].digest # c.digest

\* a delete was issued in a run that also holds a recent manifest, a
\* manifest without creation time or a protected one
DeletesWitness ==
    /\ commands # <<>>
    /\ \/ old_manifests_in_use # <<>>
       \/ \E m \in Range(Flatten(repositories)) :
             m.created_time = None \/ m.created_time.t >= Now - IMAGE_AGE_THRESHOLD_DAYS

\* C3: a delete command is issued only after classification, with mode '2'
\* chosen, 'yes' answered to the mode confirmation and 'DELETE' given at the
\* final prompt (the answers as input() returns them, stripped, the
\* confirmation lowered); in a run with any other answers none is issued.
DeleteNeedsConfirmations ==
    commands # <<>> =>
        /\ Classified
        /\ choice = <<"2">>
        /\ confirm = Yes
        /\ response = DELETE
        /\ deletion_mode = "hard"

\* a delete was issued after the user first declined or mistyped
ConfirmationsWitness ==
    /\ commands # <<>>
    /\ response = DELETE

\* the registry host an image reference names: the text before its first '/'
RegistryHost(image) ==
    IF Positions(image, "/") = {} THEN <<>>
    ELSE SubSeq(image, 1, MinOf(Positions(image, "/")) - 1)

PointsAtTarget(image) == Lower(RegistryHost(image)) = Lower(acr_login_server)

\* the tag reference whose registry query was answered without a digest
FailedToResolve(image) ==
    LET part == ImagePart(image, acr_login_server)
    IN  /\ ~IsDigestRef(part)
        /\ TagQuery(part) \in DOMAIN acr_tags
        /\ \/ acr_tags[TagQuery(part)].kind # "json"
           \/ acr_tags[TagQuery(part)].digest = <<>>

\* the digest text a reference resolved to, as written or as answered
ResolvedText(image) ==
    LET part == ImagePart(image, acr_login_server)
    IN  IF IsDigestRef(part) THEN SplitSecond(part, "@")
        ELSE IF TagQuery(part) \in DOMAIN acr_tags
             THEN acr_tags[TagQuery(part)].digest
             ELSE <<>>

\* C4: an image reference that names another registry host never contributes
\* a digest: once resolution is over, every digest of the in-use set and of
\* the digest-to-apps index was resolved from a reference whose host is the
\* target registry's.
TenancyFilter ==
    Resolved =>
        \A d \in manifests_in_use \cup DOMAIN digest_to_apps :
            \E image \in images_in_use :
                /\ PointsAtTarget(image)
                /\ ~FailedToResolve(image)
                /\ Lower(ResolvedText(image)) = d

\* the registry manifests a usage reference resolves to, whatever the case
ReferencedRaw(repo, i) ==
    LET raw == acr.manifests[repo][i]
    IN  /\ raw.createdTime.form = "utc"
        /\ raw.createdTime.t < Now - IMAGE_AGE_THRESHOLD_DAYS
        /\ \E image \in images_in_use :
              /\ ~FailedToResolve(image)
              /\ Lower(ResolvedText(image)) = Lower(raw.digest)

Listed(list, repo, digest) ==
    \E j \in 1..Len(list) : list[j].repository = repo /\ list[j].digest = digest

\* C5: an old manifest whose registry digest is in upper or mixed case and a
\* usage reference resolving (by tag lookup or digest form) to the same
\* digest in any letter case: the manifest is in old_manifests_in_use and
\* not in unused_manifests.
DigestCaseInsensitive ==
    Classified =>
        \A repo \in Range(acr.repo_list) :
            \A i \in 1..Len(acr.manifests[repo]) :
                ReferencedRaw(repo, i) =>
                    /\ Listed(old_manifests_in_use, repo, Lower(acr.manifests[repo][i].digest))
                    /\ ~Listed(unused_manifests, repo, Lower(acr.manifests[repo][i].digest))

\* the registry digest is in upper case and the reference resolved to it in
\* lower case
DigestCaseWitness ==
    /\ Classified
    /\ \E repo \in Range(acr.repo_list) :
          \E i \in 1..Len(acr.manifests[repo]) :
              /\ ReferencedRaw(repo, i)
              /\ acr.manifests[repo][i].digest # Lower(acr.manifests[repo][i].digest)
              /\ \E image \in images_in_use :
                    ResolvedText(image) = Lower(acr.manifests[repo][i].digest)
              /\ Listed(old_manifests_in_use, repo, Lower(acr.manifests[repo][i].digest))

\* the digests of the references that did resolve
ResolvedDigests ==
    {Lower(ResolvedText(image)) : image \in {x \in images_in_use : ~FailedToResolve(x)}}

\* C6: a reference whose tag resolution fails (command error, unparsable
\* answer, answer without digest) adds nothing to the in-use set or the
\* digest-to-apps index, the other references are still resolved, and an old
\* manifest no resolved reference names is classified into unused_manifests.
FailedResolutionDropped ==
    Resolved =>
        LET resolved == ResolvedDigests
        IN  /\ pending = {}
            /\ manifests_in_use = resolved
            /\ DOMAIN digest_to_apps = resolved
            /\ Classified =>
                  \A i \in 1..Len(OldList) :
                      OldList[i].digest \notin resolved
                          => Occurrences(unused_manifests, OldList[i]) = 1

\* one reference failed to resolve, another resolved, and a manifest was
\* left unused
FailedResolutionWitness ==
    /\ Classified
    /\ \E image \in images_in_use : FailedToResolve(image)
    /\ manifests_in_use # {}
    /\ unused_manifests # <<>>

\* filter_manifests_by_age has returned in this run
Filtered == pc \in {"list_apps", "scan", "resolve", "identify", "done"} \/ Classified

StrictlyOlder(manifests) ==
    SelectSeq(manifests,
              LAMBDA m : /\ m.created_time # None
                         /\ m.created_time.t < Now - IMAGE_AGE_THRESHOLD_DAYS)

\* C7: the result of filter_manifests_by_age maps each repository to exactly
\* its catalog manifests, in catalog order, whose creation time is not null
\* and strictly before now minus the threshold; a repository without such a
\* manifest is absent from the result.
AgeFilterExact ==
    Filtered =>
        /\ \A i \in 1..Len(repositories) :
              LET hits == {j \in 1..Len(old_repositories) :
                              old_repositories[j].repo = repositories[i].repo}
              IN  IF StrictlyOlder(repositories[i].manifests) = <<>>
                  THEN hits = {}
                  ELSE /\ Cardinality(hits) = 1
                       /\ \A j \in hits :
                             old_repositories[j].manifests
                                 = StrictlyOlder(repositories[i].manifests)
        /\ \A j \in 1..Len(old_repositories) :
              \E i \in 1..Len(repositories) :
                  repositories[i].repo = old_repositories[j].repo

\* one repository is dropped, its only manifest created exactly at the
\* cutoff, while another repository survives
AgeFilterWitness ==
    /\ Filtered
    /\ old_repositories # <<>>
    /\ \E i \in 1..Len(repositories) :
          /\ \A j \in 1..Len(old_repositories) :
                old_repositories[j].repo # repositories[i].repo
          /\ \E k \in 1..Len(repositories[i].manifests) :
                /\ repositories[i].manifests[k].created_time # None
                /\ repositories[i].manifests[k].created_time.t
                      = Now - IMAGE_AGE_THRESHOLD_DAYS

\* hard_delete_manifests was confirmed and its loop ran to the end
BatchCompleted == response = DELETE /\ pc \in {"audit", "done"}

\* C8: once deletion is confirmed a delete is attempted exactly once for
\* every manifest of unused_manifests, in list order, whatever the earlier
\* outcomes, and the returned ledger records each attempt's outcome as
\* 'success' or 'failed'.
EachDeletionRecorded ==
    BatchCompleted =>
        /\ Len(commands) = Len(unused_manifests)
        /\ Len(outcomes) = Len(unused_manifests)
        /\ \A i \in 1..Len(unused_manifests) :
              /\ commands[i].repository = unused_manifests[i].repository
              /\ commands[i].digest = unused_manifests[i].digest
              /\ unused_manifests[i].digest \in DOMAIN deletion_results.entries
              /\ deletion_results.entries[unused_manifests[i].digest].status
                    = (IF outcomes[i] = "success" THEN "success" ELSE "failed")

\* the part of C8 about the loop alone: one attempt per manifest, in order,
\* after failures and timeouts too
BatchContinues ==
    BatchCompleted =>
        /\ Len(commands) = Len(unused_manifests)
        /\ Len(outcomes) = Len(unused_manifests)
        /\ deleted_count + failed_count = Len(unused_manifests)
        /\ \A i \in 1..Len(unused_manifests) :
              /\ commands[i].repository = unused_manifests[i].repository
              /\ commands[i].digest = unused_manifests[i].digest

\* C9: a user interrupt never ends the run while a delete command is in
\* progress: when the run has ended, every delete command that was issued
\* has returned its outcome to the deletion loop.
InterruptBetweenDeletions ==
    pc \in {"cancelled", "done"} => Len(outcomes) = Len(commands)

\* get_all_acr_manifests has returned in this run
Catalogued == pc \in {"filter", "fatal"} \/ Filtered

CatalogComplete ==
    /\ Len(repositories) = Len(acr.repo_list)
    /\ \A i \in 1..Len(repositories) :
          /\ repositories[i].repo = acr.repo_list[i]
          /\ Len(repositories[i].manifests) = Len(acr.manifests[acr.repo_list[i]])

\* C10: a failure listing the repositories, the manifests of a repository or
\* the App Services ends the run before classification, before any prompt
\* and before any delete command; a run that goes on holds the manifests of
\* every repository and has scanned every App Service listed.
ListingFailureIsFatal ==
    /\ pc = "exit1" =>
          /\ unused_manifests = <<>>
          /\ old_manifests_in_use = <<>>
          /\ manifests_in_use = {}
          /\ choice = <<>>
          /\ response = <<>>
          /\ deletion_mode = "none"
          /\ commands = <<>>
          /\ ~audit.written
    /\ Catalogued => CatalogComplete
    /\ Resolved => app_idx = Len(webapps) + 1

\* the listing of a later repository failed after an earlier one was read
ListingFailureWitness ==
    /\ pc = "exit1"
    /\ repositories # <<>>
    /\ Len(repositories) < Len(acr.repo_list)

\* get_images_in_use_by_app_services has returned in this run
Scanned == pc = "resolve" \/ Resolved

\* C11: every deployment slot is scanned independently: a slot whose
\* configuration is readable and declares an image of the target registry is
\* recorded in images_in_use and in image_to_apps under 'appName/slotName',
\* whatever other configuration (the app's own, another slot's, another
\* app's) could not be read.
SlotsScannedIndependently ==
    Scanned =>
        \A a \in 1..Len(webapps) : \A k \in 1..Len(webapps[a].slots) :
            LET slot  == webapps[a].slots[k]
                image == extract_acr_image_from_config(slot.config, acr_login_server)
            IN  slot.config.readable /\ image # <<>> /\ PointsAtTarget(image) =>
                    /\ image \in images_in_use
                    /\ image \in DOMAIN image_to_apps
                    /\ \E j \in 1..Len(image_to_apps[image]) :
                          image_to_apps[image][j] = <<webapps[a].name, slot.name>>

\* C12: classification runs only after usage extraction and resolution are
\* complete: once resolve_images_to_manifests has returned every App Service
\* was scanned and no reference is left to resolve, no later step changes the
\* usage sets, and the manifests classified unused are outside the in-use
\* digest set.
ClassifiedOnFinalUsage ==
    /\ [](Resolved =>
            /\ app_idx = Len(webapps) + 1
            /\ pending = {}
            /\ \A i \in 1..Len(unused_manifests) :
                  unused_manifests[i].digest \notin manifests_in_use)
    /\ [][Resolved => UNCHANGED <<images_in_use, image_to_apps,
                                  manifests_in_use, digest_to_apps>>]_vars

\* manifests were classified against the digests of two references
ClassifiedWitness ==
    /\ Classified
    /\ Cardinality(images_in_use) >= 2
    /\ manifests_in_use # {}
    /\ unused_manifests # <<>>
    /\ old_manifests_in_use # <<>>

\* the configurations of the listed App Services: the identifier recorded
\* for each, and whether the scan reaches it (a slot is read after the
\* production configuration of its app was)
Configurations ==
    {[id |-> <<webapps[a].name>>, config |-> webapps[a].config, reached |-> TRUE] :
        a \in 1..Len(webapps)}
    \cup UNION
        {{[id      |-> <<webapps[a].name, webapps[a].slots[k].name>>,
           config  |-> webapps[a].slots[k].config,
           reached |-> webapps[a].config.readable] :
             k \in 1..Len(webapps[a].slots)} : a \in 1..Len(webapps)}

\* the (instance, reference) pairs: the instances whose configuration
\* declares an image the tenancy filter lets through
Declarations ==
    {[id |-> c.id, image |-> extract_acr_image_from_config(c.config, acr_login_server)] :
        c \in {x \in Configurations :
                  /\ x.config.readable
                  /\ extract_acr_image_from_config(x.config, acr_login_server) # <<>>}}

\* the pairs of the configurations the scan read
ScannedDeclarations ==
    {[id |-> c.id, image |-> extract_acr_image_from_config(c.config, acr_login_server)] :
        c \in {x \in Configurations :
                  /\ x.reached
                  /\ x.config.readable
                  /\ extract_acr_image_from_config(x.config, acr_login_server) # <<>>}}

ResolvesTo(image, digest) ==
    ~FailedToResolve(image) /\ Lower(ResolvedText(image)) = digest

Count(list, x) == Cardinality({i \in 1..Len(list) : list[i] = x})

\* the provenance lists hold one entry for each pair of pairs and no other
ProvenanceOf(pairs) ==
    \A digest \in DOMAIN digest_to_apps \cup
                  {Lower(ResolvedText(p.image)) : p \in {x \in pairs : ~FailedToResolve(x.image)}} :
        /\ digest \in DOMAIN digest_to_apps
        /\ Len(digest_to_apps[digest])
              = Cardinality({p \in pairs : ResolvesTo(p.image, digest)})
        /\ \A p \in pairs :
              ResolvesTo(p.image, digest) => Count(digest_to_apps[digest], p.id) = 1

\* C13: provenance is accumulated without deduplication: the digest-to-apps
\* entry of a digest D holds the identifier of every instance declaring a
\* reference that resolves to D, once for each (instance, reference) pair.
ProvenanceKeepsEveryInstance == Resolved => ProvenanceOf(Declarations)

\* the part of C13 about accumulation alone, over the configurations the
\* scan read
ProvenanceAccumulates == Resolved => ProvenanceOf(ScannedDeclarations)

\* C14: in a run where mock mode is selected no delete command is issued and
\* the registry holds at the end the manifests it held at the start;
\* mock_delete_manifests lists, once for each manifest of unused_manifests
\* and in list order, the command that would be run.
MockDeletesNothing ==
    deletion_mode = "mock" =>
        /\ commands = <<>>
        /\ outcomes = <<>>
        /\ acr_deleted = {}
        /\ deletion_results = None
        /\ pc \in {"audit", "done"} =>
              /\ Len(mock_commands) = Len(unused_manifests)
              /\ \A i \in 1..Len(unused_manifests) :
                    /\ mock_commands[i].repository = unused_manifests[i].repository
                    /\ mock_commands[i].digest = unused_manifests[i].digest

\* a mock run listed two manifests and ended
MockWitness ==
    /\ deletion_mode = "mock"
    /\ pc = "done"
    /\ Len(mock_commands) >= 2
    /\ audit.written

\* C15: every manifest record of the catalog has a non-empty tag list, a
\* manifest the registry reports without tags has the list <<"<untagged>">>,
\* and the same holds for the record in the old mapping, the classification
\* lists and the audit entries.
TagListNeverEmpty ==
    /\ \A i \in 1..Len(repositories) :
          \A j \in 1..Len(repositories[i].manifests) :
              LET raw == acr.manifests[repositories[i].repo][j]
                  m   == repositories[i].manifests[j]
              IN  /\ m.tags # <<>>
                  /\ raw.tags = <<>> => m.tags = <<"<untagged>">>
                  /\ raw.tags # <<>> => m.tags = raw.tags
    /\ \A m \in Range(OldList) \cup Range(unused_manifests)
                \cup Range(old_manifests_in_use) \cup Range(audit.manifests)
                \cup Range(audit.old_manifests_in_use) :
          /\ m.tags # <<>>
          /\ \E i \in 1..Len(repositories) :
                \E j \in 1..Len(repositories[i].manifests) :
                    /\ repositories[i].manifests[j].repository = m.repository
                    /\ repositories[i].manifests[j].digest = m.digest
                    /\ repositories[i].manifests[j].tags = m.tags

\* an untagged manifest reached the audit file
UntaggedWitness ==
    /\ audit.written
    /\ \E m \in Range(audit.manifests) \cup Range(audit.old_manifests_in_use) :
          m.tags = <<"<untagged>">>
    /\ \E i \in 1..Len(repositories) :
          \E j \in 1..Len(repositories[i].manifests) :
              acr.manifests[repositories[i].repo][j].tags = <<>>

\* C16: the number printed as "Total App Services affected" is the number of
\* distinct identifiers in the provenance lists of old_manifests_in_use: an
\* instance listed for several protected manifests, or several times for
\* one, is counted once.
AffectedCountIsSetUnion ==
    Classified /\ old_manifests_in_use # <<>> =>
        apps_affected =
            Cardinality(UNION {Range(old_manifests_in_use[i].used_by_apps) :
                                  i \in 1..Len(old_manifests_in_use)})

\* one instance is listed for two protected manifests
AffectedCountWitness ==
    /\ Classified
    /\ apps_affected = 1
    /\ \E i, j \in 1..Len(old_manifests_in_use) :
          /\ i # j
          /\ Range(old_manifests_in_use[i].used_by_apps)
                \cap Range(old_manifests_in_use[j].used_by_apps) # {}

\* the digest one reference contributes under the registry answers given
DigestFor(image) ==
    LET part == ImagePart(image, acr_login_server)
    IN  IF IsDigestRef(part) THEN DigestOfRef(part)
        ELSE IF TagQuery(part) \in DOMAIN acr_tags
             THEN ResolvedDigest(acr_tags[TagQuery(part)])
             ELSE <<>>

\* the loop of resolve_images_to_manifests run over the references in order
RECURSIVE ResolveInOrder(_, _)
ResolveInOrder(resolved, order) ==
    IF order = <<>> THEN resolved
    ELSE ResolveInOrder(ResolveOne(resolved, Head(order), image_to_apps,
                                   DigestFor(Head(order))),
                        Tail(order))

\* the orders a set can be iterated in
Orders(S) ==
    {o \in [1..Cardinality(S) -> S] :
        \A i, j \in 1..Cardinality(S) : i # j => o[i] # o[j]}

\* C17: the digest-to-apps index resolve_images_to_manifests returns is the
\* same for every order the references are processed in: under the same
\* registry answers every order yields the keys and the provenance list of
\* each key that the run produced.
ResolutionOrderIndependent ==
    Resolved =>
        \A order \in Orders(images_in_use) :
            ResolveInOrder([digests |-> {}, apps |-> <<>>], order).apps
                = digest_to_apps

\* the part of C17 that holds: the keys and the in-use set do not depend on
\* the order, and the provenance lists agree up to the order of their entries
ResolutionOrderIndependentKeys ==
    Resolved =>
        \A order \in Orders(images_in_use) :
            LET other == ResolveInOrder([digests |-> {}, apps |-> <<>>], order)
            IN  /\ other.digests = manifests_in_use
                /\ DOMAIN other.apps = DOMAIN digest_to_apps
                /\ \A d \in DOMAIN digest_to_apps :
                      /\ Len(other.apps[d]) = Len(digest_to_apps[d])
                      /\ \A x \in Range(digest_to_apps[d]) :
                            Count(other.apps[d], x) = Count(digest_to_apps[d], x)

\* C18: after resolution the keys of the digest-to-apps index are exactly the
\* in-use digest set, every key is the lowercased digest of a reference that
\* resolved, and no key maps to an empty list.
IndexMatchesInUseSet ==
    Resolved =>
        /\ DOMAIN digest_to_apps = manifests_in_use
        /\ \A d \in DOMAIN digest_to_apps :
              /\ digest_to_apps[d] # <<>>
              /\ \E image \in images_in_use : ResolvesTo(image, d)

\* two digests are in use, one of them written or answered in upper case
IndexWitness ==
    /\ Resolved
    /\ Cardinality(DOMAIN digest_to_apps) >= 2
    /\ \E image \in images_in_use :
          /\ ~FailedToResolve(image)
          /\ ResolvedText(image) # Lower(ResolvedText(image))

\* C19: every entry of old_manifests_in_use carries a provenance list equal
\* to the digest-to-apps list of its digest, and that list is non-empty;
\* the entries of unused_manifests carry no provenance; the records of the
\* old mapping are as filter_manifests_by_age returned them.
ProtectedCarryProvenance ==
    Classified =>
        /\ \A i \in 1..Len(old_manifests_in_use) :
              LET m == old_manifests_in_use[i]
              IN  /\ m.digest \in DOMAIN digest_to_apps
                  /\ m.used_by_apps = digest_to_apps[m.digest]
                  /\ m.used_by_apps # <<>>
        /\ \A i \in 1..Len(unused_manifests) :
              "used_by_apps" \notin DOMAIN unused_manifests[i]
        /\ \A i \in 1..Len(OldList) : "used_by_apps" \notin DOMAIN OldList[i]
        /\ old_repositories
              = filter_manifests_by_age(repositories, IMAGE_AGE_THRESHOLD_DAYS)

\* a protected manifest used by two instances next to an unused one
ProvenanceWitness ==
    /\ Classified
    /\ unused_manifests # <<>>
    /\ \E i \in 1..Len(old_manifests_in_use) :
          Len(old_manifests_in_use[i].used_by_apps) >= 2

RepoTexts == {<<"s","v","c">>, <<"w","e","b">>}

\* '<registry>/r' and '<registry>/r:latest'
BareRef(r) == acr_login_server \o Slash \o r

LatestRef(r) == BareRef(r) \o <<":","l","a","t","e","s","t">>

\* C20: a reference without tag and digest resolves as the same reference
\* with tag 'latest': '<registry>/r' and '<registry>/r:latest' issue the same
\* registry query, and in a run that holds either of them both stand for the
\* same digest or are both dropped, the provenance of each one held going to
\* that digest's entry.
DefaultTagIsLatest ==
    /\ pc = "resolve" =>
          \A r \in RepoTexts :
              /\ ~IsDigestRef(ImagePart(BareRef(r), acr_login_server))
              /\ TagQuery(ImagePart(BareRef(r), acr_login_server))
                    = TagQuery(ImagePart(LatestRef(r), acr_login_server))
    /\ Resolved =>
          \A r \in RepoTexts :
              \A held \in {BareRef(r), LatestRef(r)} \cap images_in_use :
                  /\ TagQuery(ImagePart(held, acr_login_server)) \in DOMAIN acr_tags
                  /\ DigestFor(BareRef(r)) = DigestFor(LatestRef(r))
                  /\ FailedToResolve(BareRef(r)) <=> FailedToResolve(LatestRef(r))
                  /\ DigestFor(held) # <<>> =>
                        /\ DigestFor(held) \in manifests_in_use
                        /\ \A x \in Range(image_to_apps[held]) :
                              x \in Range(digest_to_apps[DigestFor(held)])

\* an instance declares the bare reference and is listed for the digest the
\* registry answered to the query for the tag latest
DefaultTagWitness ==
    /\ Resolved
    /\ \E r \in RepoTexts :
          /\ BareRef(r) \in images_in_use
          /\ r \o <<":","l","a","t","e","s","t">> \in DOMAIN acr_tags
          /\ DigestFor(LatestRef(r)) # <<>>
          /\ DigestFor(LatestRef(r)) \in DOMAIN digest_to_apps
          /\ Range(image_to_apps[BareRef(r)])
                \subseteq Range(digest_to_apps[DigestFor(LatestRef(r))])

\* 'DOCKER|<image>'
HasDockerForm(fx_version) ==
    StartsWith(fx_version, DockerPrefix) /\ Len(fx_version) > Len(DockerPrefix)

\* the candidate image: from the descriptor that has the form DOCKER|<image>,
\* from the custom-image setting when neither has
Candidate(config) ==
    IF HasDockerForm(config.linux_fx_version)
    THEN DockerImage(config.linux_fx_version)
    ELSE IF HasDockerForm(config.windows_fx_version)
         THEN DockerImage(config.windows_fx_version)
         ELSE config.DOCKER_CUSTOM_IMAGE_NAME

\* C21: extract_acr_image_from_config takes the candidate from a launch
\* descriptor (Linux or Windows) whenever one has the form DOCKER|<image>,
\* from the custom-image setting only when neither has, and returns it only
\* if it contains the registry host name in any letter case, '' otherwise;
\* the image recorded for a scanned App Service is that result.
DescriptorBeforeSetting ==
    Scanned =>
        \A a \in 1..Len(webapps) :
            LET config   == webapps[a].config
                expected == IF /\ Candidate(config) # <<>>
                               /\ Contains(Lower(Candidate(config)), Lower(acr_login_server))
                            THEN Candidate(config) ELSE <<>>
            IN  config.readable =>
                    /\ extract_acr_image_from_config(config, acr_login_server) = expected
                    /\ expected # <<>> => expected \in images_in_use

\* a reference to the target registry that names a digest, in any letter case
DigestQualified(image) ==
    /\ PointsAtTarget(image)
    /\ Contains(Lower(image), <<"@">> \o Sha256)

\* C22: a digest-qualified reference to the target registry puts its
\* lowercased digest into the in-use set without a registry query, whatever
\* the letter case of the reference (the algorithm prefix included), and no
\* manifest with that digest is classified unused.
DigestRefNeedsNoQuery ==
    Resolved =>
        \A image \in {x \in images_in_use : DigestQualified(x)} :
            /\ Lower(SplitSecond(image, "@")) \in manifests_in_use
            /\ \A query \in DOMAIN acr_tags : ~Contains(query, <<"@">>)
            /\ \A i \in 1..Len(unused_manifests) :
                  unused_manifests[i].digest # Lower(SplitSecond(image, "@"))

\* the part of C22 that holds: the references written with 'sha256' in lower
\* case, whatever the case of the host and of the hex digits
LowerPrefixDigestRef ==
    Resolved =>
        \A image \in {x \in images_in_use :
                         DigestQualified(x) /\ Contains(x, <<"@">> \o Sha256)} :
            /\ Lower(SplitSecond(image, "@")) \in manifests_in_use
            /\ \A i \in 1..Len(unused_manifests) :
                  unused_manifests[i].digest # Lower(SplitSecond(image, "@"))

\* C23: after a confirmed hard-delete batch completes the ledger accounts for
\* every attempt: it has as many entries as unused_manifests has manifests
\* and as deleted_count + failed_count, and the audit's total_attempted,
\* successful and failed equal the numbers of delete commands issued,
\* succeeded and failed.
LedgerAccountsForEveryAttempt ==
    BatchCompleted =>
        /\ Cardinality(DOMAIN deletion_results.entries) = Len(unused_manifests)
        /\ Cardinality(DOMAIN deletion_results.entries) = deleted_count + failed_count
        /\ audit.written =>
              /\ audit.deletion_summary.present
              /\ audit.deletion_summary.total_attempted = Len(commands)
              /\ audit.deletion_summary.successful
                    = Cardinality({i \in 1..Len(outcomes) : outcomes[i] = "success"})
              /\ audit.deletion_summary.failed
                    = Cardinality({i \in 1..Len(outcomes) : outcomes[i] # "success"})

\* the part of C23 that holds: the counters of the loop
CountersAccountForEveryAttempt ==
    BatchCompleted =>
        /\ deleted_count + failed_count = Len(unused_manifests)
        /\ deleted_count = Cardinality({i \in 1..Len(outcomes) : outcomes[i] = "success"})
        /\ failed_count = Cardinality({i \in 1..Len(outcomes) : outcomes[i] # "success"})

\* the process has exited or main() has returned
Ended == pc \in {"done", "cancelled", "exit1", "fatal"}

\* write_audit_log was called and raised (the file could not be written)
AuditWriteFailed ==
    /\ pc = "done"
    /\ deletion_mode # "none"
    /\ unused_manifests # <<>> \/ old_manifests_in_use # <<>>
    /\ ~audit.written

\* C24: every deletion that succeeded during a run is recorded with status
\* 'success' in an audit log written before the process exits, however the
\* run ends after it (completion, later failures, a user interrupt during
\* the rest of the batch).
SuccessfulDeletionsAudited ==
    Ended /\ ~AuditWriteFailed =>
        \A i \in 1..Len(outcomes) :
            outcomes[i] = "success" =>
                /\ audit.written
                /\ \E k \in 1..Len(audit.manifests) :
                      /\ audit.manifests[k].repository = commands[i].repository
                      /\ audit.manifests[k].digest = commands[i].digest
                      /\ audit.manifests[k].deletion_result.status = "success"

\* C25: a run that reports old manifests still in use and runs to completion
\* writes an audit log holding an entry with its provenance for each of
\* them, also when unused_manifests is empty and no deletion mode is asked
\* for.
ProtectedManifestsAudited ==
    pc = "done" /\ old_manifests_in_use # <<>> =>
        /\ audit.written
        /\ Len(audit.old_manifests_in_use) = Len(old_manifests_in_use)
        /\ \A i \in 1..Len(old_manifests_in_use) :
              \E k \in 1..Len(audit.old_manifests_in_use) :
                  /\ audit.old_manifests_in_use[k].repository
                        = old_manifests_in_use[i].repository
                  /\ audit.old_manifests_in_use[k].digest = old_manifests_in_use[i].digest
                  /\ audit.old_manifests_in_use[k].used_by_app_services
                        = old_manifests_in_use[i].used_by_apps

\* the part of C25 that holds: the audit file, when one is written, lists
\* the protected manifests with their provenance
WrittenAuditListsProtected ==
    audit.written =>
        /\ Len(audit.old_manifests_in_use) = Len(old_manifests_in_use)
        /\ \A i \in 1..Len(old_manifests_in_use) :
              \E k \in 1..Len(audit.old_manifests_in_use) :
                  /\ audit.old_manifests_in_use[k].digest = old_manifests_in_use[i].digest
                  /\ audit.old_manifests_in_use[k].used_by_app_services
                        = old_manifests_in_use[i].used_by_apps

====
